---- MODULE Spec2Model ----
(***************************************************************************)
(* Model of the LlamaIndexAPI server: the three route handlers of          *)
(* app/server.py, the VectorStore of app/db/vector_stores.py, the          *)
(* AIActions of app/api/ai_actions.py and the image normaliser of          *)
(* app/utils/image_utils.py.                                               *)
(*                                                                         *)
(* Each request is a coroutine on one event loop.  A handler is cut into   *)
(* one action per `await` of its body: an action is the awaited call and   *)
(* the code after it up to the next await, the first one starting at the   *)
(* arrival of the request.  The vector store (Qdrant), the image host and  *)
(* the generation service are the environment: every call to them either   *)
(* succeeds or raises, chosen nondeterministically.  When a handler        *)
(* returns, its frame is released and what it returned is kept in `last`.  *)
(***************************************************************************)
EXTENDS Integers, Sequences, FiniteSets, TLC

\* ------------------------------------------------------------------ bounds
MaxReqs == 2          \* requests served by the process
MaxRandomId == 2      \* distinct values random.random() can yield
MaxPayloadLen == 2    \* bytes of an image payload
MaxCalls == 3         \* method calls made on one VectorStore object

\* ------------------------------------------------------------------ values
Users == {"U1", "U2"}
Reqs == 1..MaxReqs
RandomIds == 1..MaxRandomId

\* Python's None, str and bytes.  A str that is an image is a sequence of
\* code points; ids, names and urls are TLA+ strings.
None == [tag |-> "None"]
Str(s) == [tag |-> "str", val |-> s]
Bytes(b) == [tag |-> "bytes", val |-> b]
\* A coroutine object: the result of calling an `async def` without await.
Coroutine == [tag |-> "coroutine"]

TestImageUrl == "https://picsum.photos/500"
TextBodies == {"This is a test text"}

VARIABLES
    collections,  \* Qdrant: collection name -> sequence of stored documents
    initialised,  \* history: the users an Index has been built for
    pc,           \* per request: the await its handler is suspended at
    frame,        \* per request: the handler's frame (see NoFrame)
    last,         \* the request that returned last: its frame and response
    norm_in,      \* normaliser harness: the ImageIngestionRequest
    norm_out,     \* normaliser harness: the result of image_req_to_base64
    vs_obj,       \* VectorStore harness: the one VectorStore object
    vs_call       \* VectorStore harness: the last method call and its result

vars == <<collections, initialised, pc, frame, last, norm_in, norm_out,
          vs_obj, vs_call>>

routeVars == <<collections, initialised, pc, frame, last>>
normVars == <<norm_in, norm_out>>
apiVars == <<vs_obj, vs_call>>

\* ------------------------------------------------------------ models.py
\* ServerResponse(status, message, data)
ServerResponse(status, message, data) ==
    [status |-> status, message |-> message, data |-> data]

NoResponse == ServerResponse(0, "", None)

\* TextIngestionRequest: only userId and text are read by the handlers.
TextIngestionRequest(userId, text) == [userId |-> userId, text |-> text]

\* The request bodies, in one shape: AssessmentRequest and
\* TextIngestionRequest leave the image fields at None.
Request(kind, userId, text, image_url, image, text_request) ==
    [kind |-> kind, userId |-> userId, text |-> text,
     image_url |-> image_url, image |-> image, text_request |-> text_request]

NoRequest == Request("none", "", "", None, None, None)

\* ------------------------------------------------- vector_stores.py: state
\* VectorStore.__init__: every store and index is None.
NewVectorStore == [user_index |-> None, index |-> None]

UserTextCollection(user_id) == user_id \o "_text"
\* Mutant of UserImageCollection: the image store is given the text suffix.
UserImageCollection_TextSuffix(user_id) == user_id \o "_text"
UserImageCollection(user_id) == user_id \o "_image"
GlobalTextCollection == "global_text_store"
GlobalImageCollection == "global_image_store"

\* A MultiModalVectorStoreIndex: an object (identified by the VectorStore
\* that built it) over a text and an image collection.
Index(owner, text_store, image_store) ==
    [tag |-> "index", owner |-> owner,
     text_store |-> text_store, image_store |-> image_store]

\* llama_index Document / ImageNode as stored in a collection.
Document(doc_id, text) == [doc_id |-> doc_id, text |-> text, image |-> None]
ImageNode(doc_id, image) == [doc_id |-> doc_id, text |-> "", image |-> image]

BootstrapMarker(user_id) ==
    Document(user_id, user_id \o " is the users global Appwrite User ID")

\* index.insert / index.insert_nodes: append to the collection, which Qdrant
\* creates on the first insert.
\* Mutant of StoreInsert: the insert replaces what the collection held.
StoreInsert_Overwrite(colls, name, doc) ==
    IF name \in DOMAIN colls
    THEN [colls EXCEPT ![name] = <<doc>>]
    ELSE colls @@ (name :> <<doc>>)

StoreInsert(colls, name, doc) ==
    IF name \in DOMAIN colls
    THEN [colls EXCEPT ![name] = Append(@, doc)]
    ELSE colls @@ (name :> <<doc>>)

StoredIn(colls, name) == IF name \in DOMAIN colls THEN colls[name] ELSE <<>>
Stored(name) == StoredIn(collections, name)

\* A step of a request that can raise (a call to the store, the image host,
\* the generation service or a library, the evaluation of a name), with its
\* outcome: "ok", "raised", or for a fetch that answered with a status other
\* than 200, "non200".
Call(op, outcome) == [op |-> op, outcome |-> outcome]
Outcome(ok) == IF ok THEN "ok" ELSE "raised"


\* ------------------------------------------- vector_stores.py: operations
\* The result of a VectorStore method: the object after the call, the
\* collections after it, the external calls it made, and either the value
\* returned or the error raised.
Result(vs, colls, log, raised, error, value) ==
    [vs |-> vs, colls |-> colls, log |-> log,
     raised |-> raised, error |-> error, value |-> value]

StoreError == "vector store insert failed"

\* VectorStore.init_or_get_user_index(user_id, has_text_store); `ok` is
\* whether the store accepts the marker, should one be inserted.
InitOrGetUserIndex(vs, owner, user_id, has_text_store, colls, ok) ==
    IF vs.user_index # None
    THEN Result(vs, colls, <<>>, FALSE, "", vs.user_index)
    ELSE LET idx == Index(owner, UserTextCollection(user_id),
                          UserImageCollection(user_id))
             vs1 == [vs EXCEPT !.user_index = idx]
         IN  IF has_text_store
             THEN Result(vs1, colls, <<>>, FALSE, "", idx)
             ELSE IF ok
             THEN Result(vs1,
                         StoreInsert(colls, idx.text_store,
                                     BootstrapMarker(user_id)),
                         <<Call("insert_marker", "ok")>>, FALSE, "", idx)
             ELSE Result(vs1, colls, <<Call("insert_marker", "raised")>>,
                         TRUE, StoreError, None)

\* Mutant of AsyncInit: the new global index is given the user's marker.
AsyncInit_GlobalMarker(vs, owner, user_id, has_text_store, colls, ok) ==
    LET r == InitOrGetUserIndex(vs, owner, user_id, has_text_store, colls, ok)
    IN  IF r.raised THEN r
        ELSE [r EXCEPT !.vs.index = Index(owner, GlobalTextCollection,
                                          GlobalImageCollection),
                       !.colls = StoreInsert(@, GlobalTextCollection,
                                             BootstrapMarker(user_id)),
                       !.value = None]

\* VectorStore._async_init: the user index, then the global stores and index.
AsyncInit(vs, owner, user_id, has_text_store, colls, ok) ==
    LET r == InitOrGetUserIndex(vs, owner, user_id, has_text_store, colls, ok)
    IN  IF r.raised THEN r
        ELSE [r EXCEPT !.vs.index = Index(owner, GlobalTextCollection,
                                          GlobalImageCollection),
                       !.value = None]

\* VectorStore.get_instance: cls() builds a new object on every call, and
\* a handler calls it once, so the object is named by the request that
\* called (`owner`); the value returned is that name.
GetInstance(owner, user_id, has_text_store, colls, ok) ==
    LET r == AsyncInit(NewVectorStore, owner, user_id, has_text_store, colls, ok)
    IN  [r EXCEPT !.value = IF r.raised THEN 0 ELSE owner]

\* VectorStore.ingest_text(user_id, text_id, text); text_id is already
\* formatted as the f-string formats it.
TextDocId(user_id, text_id) == user_id \o "_" \o text_id

\* Mutant of VsIngestText: a refused insert is attempted a second time.
VsIngestText_RetryOnce(vs, owner, user_id, text_id, text, colls, okInit, okInsert) ==
    LET r == InitOrGetUserIndex(vs, owner, user_id, FALSE, colls, okInit)
    IN  IF r.raised THEN r
        ELSE Result(r.vs,
                    StoreInsert(r.colls, r.value.text_store,
                                Document(TextDocId(user_id, text_id), text)),
                    r.log \o (IF okInsert THEN <<>>
                              ELSE <<Call("insert_text", "raised")>>)
                          \o <<Call("insert_text", "ok")>>, FALSE, "", None)

VsIngestText(vs, owner, user_id, text_id, text, colls, okInit, okInsert) ==
    LET r == InitOrGetUserIndex(vs, owner, user_id, FALSE, colls, okInit)
    IN  IF r.raised THEN r
        ELSE IF okInsert
        THEN Result(r.vs,
                    StoreInsert(r.colls, r.value.text_store,
                                Document(TextDocId(user_id, text_id), text)),
                    r.log \o <<Call("insert_text", "ok")>>, FALSE, "", None)
        ELSE Result(r.vs, r.colls, r.log \o <<Call("insert_text", "raised")>>,
                    TRUE, StoreError, None)

\* -------------------------------------------------------- image_utils.py
\* base64.b64encode: three bytes become four characters of the alphabet
\* A-Z a-z 0-9 + /, a short last group is padded with "=".
B64Char(i) ==
    IF i < 26 THEN 65 + i
    ELSE IF i < 52 THEN 97 + (i - 26)
    ELSE IF i < 62 THEN 48 + (i - 52)
    ELSE IF i = 62 THEN 43 ELSE 47

B64Pad == 61

RECURSIVE B64Encode(_)
B64Encode(b) ==
    IF Len(b) = 0 THEN <<>>
    ELSE IF Len(b) = 1
    THEN <<B64Char(b[1] \div 4), B64Char((b[1] % 4) * 16), B64Pad, B64Pad>>
    ELSE IF Len(b) = 2
    THEN <<B64Char(b[1] \div 4),
           B64Char((b[1] % 4) * 16 + (b[2] \div 16)),
           B64Char((b[2] % 16) * 4), B64Pad>>
    ELSE <<B64Char(b[1] \div 4),
           B64Char((b[1] % 4) * 16 + (b[2] \div 16)),
           B64Char((b[2] % 16) * 4 + (b[3] \div 64)),
           B64Char(b[3] % 64)>> \o B64Encode(SubSeq(b, 4, Len(b)))

\* str.encode() / bytes.decode(): UTF-8, one byte below 128, two below 2048.
RECURSIVE StrEncode(_)
StrEncode(s) ==
    IF Len(s) = 0 THEN <<>>
    ELSE (IF s[1] < 128 THEN <<s[1]>>
          ELSE <<192 + (s[1] \div 64), 128 + (s[1] % 64)>>)
         \o StrEncode(SubSeq(s, 2, Len(s)))

RECURSIVE BytesDecode(_)
BytesDecode(b) ==
    IF Len(b) = 0 THEN <<>>
    ELSE IF b[1] < 128 THEN <<b[1]>> \o BytesDecode(SubSeq(b, 2, Len(b)))
    ELSE <<(b[1] - 192) * 64 + (b[2] - 128)>> \o BytesDecode(SubSeq(b, 3, Len(b)))

\* Image.open(...).save(buffer, format="JPEG"): the picture re-encoded as a
\* JPEG file, which starts with the SOI marker FF D8 and ends with EOI FF D9;
\* the coded picture between them is kept abstract as the source bytes.
SaveJpeg(data) == <<255, 216>> \o data \o <<255, 217>>

\* pil_image_to_base64
PilImageToBase64(data) == Str(BytesDecode(B64Encode(SaveJpeg(data))))

\* fetch_image_from_url: what the host can answer.  The empty string is no
\* URL: aiohttp raises on it.
FetchedImage == <<137, 80>>
FetchOutcomes(image_url) ==
    IF Len(image_url) = 0 THEN {"raised"} ELSE {"ok", "non200", "raised"}

FetchImageFromUrl(outcome) ==
    IF outcome = "ok" THEN Bytes(FetchedImage) ELSE None

FetchError == "cannot connect to host"

\* image_req_to_base64, awaited: `fetched` is the outcome of the fetch the
\* URL branch makes.  A branch that ends without a return returns None.
Returned(value) == [raised |-> FALSE, value |-> value]
Raised(error) == [raised |-> TRUE, error |-> error]

\* Mutant of ImageReqToBase64: an inline str is base64-encoded once more.
ImageReqToBase64_DoubleEncode(image_request, fetched) ==
    IF image_request.image_url # None
    THEN IF fetched = "raised" THEN Raised(FetchError)
         ELSE LET image_data == FetchImageFromUrl(fetched)
              IN  IF image_data # None
                  THEN Returned(Bytes(StrEncode(
                                   PilImageToBase64(image_data.val).val)))
                  ELSE Returned(None)
    ELSE IF image_request.image # None
    THEN IF image_request.image.tag = "str"
         THEN Returned(Bytes(B64Encode(StrEncode(image_request.image.val))))
         ELSE Returned(image_request.image)
    ELSE Returned(None)

ImageReqToBase64(image_request, fetched) ==
    IF image_request.image_url # None
    THEN IF fetched = "raised" THEN Raised(FetchError)
         ELSE LET image_data == FetchImageFromUrl(fetched)
              IN  IF image_data # None
                  THEN Returned(Bytes(StrEncode(
                                   PilImageToBase64(image_data.val).val)))
                  ELSE Returned(None)
    ELSE IF image_request.image # None
    THEN IF image_request.image.tag = "str"
         THEN Returned(Bytes(StrEncode(image_request.image.val)))
         ELSE Returned(image_request.image)
    ELSE Returned(None)

\* ------------------------------------- vector_stores.py: VectorStore.ingest_image
\* `image_data = image_req_to_base64(image_request)`: the coroutine function
\* is called without await, so image_data is the coroutine object and the
\* body of image_req_to_base64 never runs.
IngestImageData(image_request) == Coroutine

\* ImageNode(doc_id=..., image=image_data): the node model validates its
\* image field, declared Optional[str].  None, str and bytes are taken;
\* whether another object is taken or refused is the library's choice.
ImageNodeAccepts(image) ==
    IF image.tag \in {"None", "str", "bytes"} THEN {TRUE} ELSE BOOLEAN

ValidationError == "validation error for ImageNode"

VsIngestImage(vs, owner, image_request, doc_id, colls, okInit, accepts, okInsert) ==
    LET image_data == IngestImageData(image_request)
        r == InitOrGetUserIndex(vs, owner, image_request.userId, FALSE,
                                colls, okInit)
    IN  IF r.raised THEN r
        ELSE IF ~accepts
        THEN Result(r.vs, r.colls, r.log \o <<Call("ImageNode", "raised")>>,
                    TRUE, ValidationError, None)
        ELSE IF okInsert
        THEN Result(r.vs,
                    StoreInsert(r.colls, r.value.image_store,
                                ImageNode(doc_id, image_data)),
                    r.log \o <<Call("ImageNode", "ok"),
                               Call("insert_image", "ok")>>, FALSE, "", None)
        ELSE Result(r.vs, r.colls,
                    r.log \o <<Call("ImageNode", "ok"),
                               Call("insert_image", "raised")>>,
                    TRUE, StoreError, None)

\* ------------------------------------------------------- server.py: frames
\* The frame of a handler: the request body, the VectorStore object the
\* handler built (`vs`, None before), the binding of the local `vectordb`
\* (of `actions.vector_store` in get_summary; 0: unbound), the id drawn, the
\* nodes summarize_user retrieved, the nodes its query engine retrieved, and
\* two records kept for the properties: the external calls the request made,
\* in order, and whether no Index had been built for its user when it
\* arrived.
Frame(request, vs, vdb, id, log, nodes, engine_nodes, first) ==
    [req |-> request, vs |-> vs, vectordb |-> vdb, image_id |-> id,
     calls |-> log, image_nodes |-> nodes, nodes |-> engine_nodes,
     first_access |-> first]

NoFrame == Frame(NoRequest, None, 0, 0, <<>>, <<>>, <<>>, FALSE)

NoLast == [frame |-> NoFrame, resp |-> NoResponse]

InitRoutes ==
    /\ collections = <<>>
    /\ initialised = {}
    /\ pc = [r \in Reqs |-> "idle"]
    /\ frame = [r \in Reqs |-> NoFrame]
    /\ last = NoLast

NotRun == [tag |-> "not run"]
NormIdle == /\ norm_in = NoRequest
            /\ norm_out = NotRun

\* VectorStore harness, not running: no object, no call made.
NoCall == [op |-> "none", user_id |-> "", before |-> <<>>, raised |-> FALSE,
           value |-> None, count |-> 0]
ApiIdle == /\ vs_obj = None
           /\ vs_call = NoCall

Init == InitRoutes /\ NormIdle /\ ApiIdle

\* The handler is suspended at its next await.
Suspend(r, next, f) ==
    /\ pc' = [pc EXCEPT ![r] = next]
    /\ frame' = [frame EXCEPT ![r] = f]
    /\ UNCHANGED last

\* `return ServerResponse(...)`: the handler ends and its frame is released.
Return(r, response, f) ==
    /\ pc' = [pc EXCEPT ![r] = "released"]
    /\ frame' = [frame EXCEPT ![r] = NoFrame]
    /\ last' = [frame |-> f, resp |-> response]

\* Mutant of ExceptResponse: the handler answers an exception with the
\* success status.
ExceptResponse_Status200(prefix, error) ==
    ServerResponse(200, prefix \o error, None)

\* `except Exception as e: return ServerResponse(status=500, message=f"...{str(e)}")`
ExceptResponse(prefix, error) == ServerResponse(500, prefix \o error, None)

\* str(random.random() * 1000000000000000): a float, formatted with a
\* fraction; str(math.floor(...)): an int.
FloatStr(n) == ToString(n) \o ".0"
IntStr(n) == ToString(n)

\* A request arrives at a route; requests are numbered in order of arrival.
Arrives(r) ==
    /\ pc[r] = "idle"
    /\ \A q \in Reqs : q < r => pc[q] # "idle"

\* The frame after a VectorStore method returned `x` (a Result).
After(f, x) == [f EXCEPT !.vs = x.vs, !.calls = @ \o x.log]

\* The handler's first step: the request arrives and
\* `await VectorStore.get_instance(user_id=..., has_text_store=False)` runs.
\* The frame it leaves, and whether it raised, are in the record returned.
EnterGetInstance(r, request, ok) ==
    LET g == GetInstance(r, request.userId, FALSE, collections, ok)
        f == Frame(request, g.vs, g.value, 0, g.log, <<>>, <<>>,
                   request.userId \notin initialised)
    IN  [frame |-> f, colls |-> g.colls, raised |-> g.raised, error |-> g.error]

\* --------------------------------------------- server.py: Server.ingest_text
IngestTextError == "Error ingesting text: "
TextIngested == ServerResponse(200, "Text Ingested", None)

IngestTextGetInstance(r) ==
    /\ Arrives(r)
    /\ \E u \in Users, t \in TextBodies, ok \in BOOLEAN :
         LET e == EnterGetInstance(r, Request("text", u, t, None, None, None), ok)
         IN  /\ collections' = e.colls
             /\ initialised' = initialised \cup {u}
             /\ IF e.raised
                THEN Return(r, ExceptResponse(IngestTextError, e.error), e.frame)
                ELSE Suspend(r, "ingest_text:ingest_text", e.frame)
    /\ UNCHANGED <<normVars, apiVars>>

\* `await vectordb.ingest_text(text.userId, random.random() * 1e15, text.text)`
\* then `return ServerResponse(status=200, message="Text Ingested")`.
IngestTextIngest(r) ==
    /\ pc[r] = "ingest_text:ingest_text"
    /\ \E n \in RandomIds, ok1 \in BOOLEAN, ok2 \in BOOLEAN :
         LET f == frame[r]
             x == VsIngestText(f.vs, f.vectordb, f.req.userId, FloatStr(n),
                               f.req.text, collections, ok1, ok2)
         IN  /\ collections' = x.colls
             /\ IF x.raised
                THEN Return(r, ExceptResponse(IngestTextError, x.error),
                            After(f, x))
                ELSE Return(r, TextIngested, After(f, x))
    /\ UNCHANGED <<initialised, normVars, apiVars>>

\* --------------------------- server.py: Server.ingest_image_and_maybe_text
ImageUrls == {None, Str(""), Str(TestImageUrl)}
InlineImages == {None, Str(<<>>), Str(BytesDecode(B64Encode(FetchedImage)))}

IngestImageError == "Error ingesting image and/or text: "
ImageIngested ==
    ServerResponse(200, "Image and Text (if provided) Ingested", None)
NoImageProvided == ServerResponse(400, "No image or image URL provided", None)

HasImageUrl(image_request) ==
    /\ image_request.image_url # None
    /\ Len(image_request.image_url.val) > 0

HasInlineImage(image_request) == image_request.image # None

\* get_instance and what follows it up to the next await: the branch on the
\* request, the id drawn in the inline branch, or the 400.
IngestImageGetInstance(r) ==
    /\ Arrives(r)
    /\ \E u \in Users, url \in ImageUrls, img \in InlineImages,
          n \in RandomIds, ok \in BOOLEAN :
        \E tr \in {None} \cup {TextIngestionRequest(u, t) : t \in TextBodies} :
         LET request == Request("image", u, "", url, img, tr)
             e == EnterGetInstance(r, request, ok)
         IN  /\ collections' = e.colls
             /\ initialised' = initialised \cup {u}
             /\ IF e.raised
                THEN Return(r, ExceptResponse(IngestImageError, e.error),
                            e.frame)
                ELSE IF HasImageUrl(request)
                THEN Suspend(r, "ingest_image:fetch", e.frame)
                ELSE IF HasInlineImage(request)
                THEN Suspend(r, IF request.text_request # None
                                THEN "ingest_image:ingest_text"
                                ELSE "ingest_image:ingest_image",
                             [e.frame EXCEPT !.image_id = n])
                ELSE Return(r, NoImageProvided, e.frame)
    /\ UNCHANGED <<normVars, apiVars>>

\* `image_request.image = await fetch_image_from_url(...)`, then
\* `document_id = document.get("$id")`: no name `document` is bound in the
\* handler or the module, so the statement raises NameError and the rest of
\* the URL branch is never reached.
NameError == "name 'document' is not defined"

IngestImageFetch(r) ==
    /\ pc[r] = "ingest_image:fetch"
    /\ \E fetched \in FetchOutcomes(frame[r].req.image_url.val) :
         LET f == [frame[r] EXCEPT !.calls = Append(@, Call("fetch", fetched))]
         IN  IF fetched = "raised"
             THEN Return(r, ExceptResponse(IngestImageError, FetchError), f)
             ELSE Return(r, ExceptResponse(IngestImageError, NameError),
                         [f EXCEPT !.req.image = FetchImageFromUrl(fetched),
                                   !.calls = Append(@, Call("document", "raised"))])
    /\ UNCHANGED <<collections, initialised, normVars, apiVars>>

\* Mutant of IngestImagePairedText: a failed text insert is passed over and
\* the handler goes on to the image.
IngestImagePairedText_IgnoreFailure(r) ==
    /\ pc[r] = "ingest_image:ingest_text"
    /\ \E ok1 \in BOOLEAN, ok2 \in BOOLEAN :
         LET f == frame[r]
             x == VsIngestText(f.vs, f.vectordb, f.req.userId,
                               IntStr(f.image_id), f.req.text_request.text,
                               collections, ok1, ok2)
         IN  /\ collections' = x.colls
             /\ Suspend(r, "ingest_image:ingest_image",
                        [f EXCEPT !.vs = x.vs,
                                  !.calls = @ \o (IF x.raised THEN <<>> ELSE x.log)])
    /\ UNCHANGED <<initialised, normVars, apiVars>>

\* inline branch: `await vectordb.ingest_text(userId, text_id=image_id, ...)`
IngestImagePairedText(r) ==
    /\ pc[r] = "ingest_image:ingest_text"
    /\ \E ok1 \in BOOLEAN, ok2 \in BOOLEAN :
         LET f == frame[r]
             x == VsIngestText(f.vs, f.vectordb, f.req.userId,
                               IntStr(f.image_id), f.req.text_request.text,
                               collections, ok1, ok2)
         IN  /\ collections' = x.colls
             /\ IF x.raised
                THEN Return(r, ExceptResponse(IngestImageError, x.error),
                            After(f, x))
                ELSE Suspend(r, "ingest_image:ingest_image", After(f, x))
    /\ UNCHANGED <<initialised, normVars, apiVars>>

\* inline branch: `await vectordb.ingest_image(image_request, image_id)` then
\* `return ServerResponse(status=200, ...)`.
IngestImageIngest(r) ==
    /\ pc[r] = "ingest_image:ingest_image"
    /\ \E ok1 \in BOOLEAN, ok2 \in BOOLEAN,
          accepts \in ImageNodeAccepts(IngestImageData(frame[r].req)) :
         LET f == frame[r]
             x == VsIngestImage(f.vs, f.vectordb, f.req, IntStr(f.image_id),
                                collections, ok1, accepts, ok2)
         IN  /\ collections' = x.colls
             /\ IF x.raised
                THEN Return(r, ExceptResponse(IngestImageError, x.error),
                            After(f, x))
                ELSE Return(r, ImageIngested, After(f, x))
    /\ UNCHANGED <<initialised, normVars, apiVars>>

\* --------------------------- server.py: Server.get_summary, ai_actions.py
GetSummaryError == "Error generating summary: "
SummaryGenerated(summary) == ServerResponse(200, "Summary Generated", summary)

\* `actions = await AIActions.get_instance(...)`: AIActions._async_init sets
\* self.vector_store to a VectorStore.get_instance(...) of its own.
GetSummaryGetInstance(r) ==
    /\ Arrives(r)
    /\ \E u \in Users, ok \in BOOLEAN :
         LET e == EnterGetInstance(r, Request("summary", u, "", None, None, None),
                                   ok)
         IN  /\ collections' = e.colls
             /\ initialised' = initialised \cup {u}
             /\ IF e.raised
                THEN Return(r, ExceptResponse(GetSummaryError, e.error), e.frame)
                ELSE Suspend(r, "get_summary:retrieve", e.frame)
    /\ UNCHANGED <<normVars, apiVars>>

ImageSimilarityTopK == 5
Generated == {"a personality summary"}
GenerationError == "generation failed"
RetrievalError == "retrieval failed"

Take(seq, k) == SubSeq(seq, 1, IF Len(seq) < k THEN Len(seq) ELSE k)

\* MultiModalVectorIndexRetriever.atext_to_image_retrieve: the top nodes of
\* the index's image collection, in the store's order.
TextToImageRetrieve(index, colls) ==
    Take(StoredIn(colls, index.image_store), ImageSimilarityTopK)

\* summarize_user up to `await retriever.atext_to_image_retrieve(...)`: the
\* assert on self.vector_store (None is returned when it fails), the user
\* index, the retrieval.
GetSummaryRetrieve(r) ==
    /\ pc[r] = "get_summary:retrieve"
    /\ LET f == frame[r]
       IN  IF f.vectordb = 0
           THEN /\ Return(r, SummaryGenerated(None), f)
                /\ UNCHANGED collections
           ELSE \E ok1 \in BOOLEAN, ok2 \in BOOLEAN :
                  LET x == InitOrGetUserIndex(f.vs, f.vectordb, f.req.userId,
                                              FALSE, collections, ok1)
                      f1 == After(f, x)
                      f2 == [f1 EXCEPT !.calls =
                                Append(@, Call("retrieve", Outcome(ok2)))]
                  IN  /\ collections' = x.colls
                      /\ IF x.raised
                         THEN Return(r, ExceptResponse(GetSummaryError, x.error),
                                     f1)
                         ELSE IF ~ok2
                         THEN Return(r, ExceptResponse(GetSummaryError,
                                                       RetrievalError), f2)
                         ELSE Suspend(r, "get_summary:aquery",
                                 [f2 EXCEPT !.image_nodes =
                                     TextToImageRetrieve(x.value, x.colls)])
    /\ UNCHANGED <<initialised, normVars, apiVars>>

\* MultiModalVectorIndexRetriever.aretrieve: the top nodes of the index's
\* text collection, then the top nodes of its image collection.
SimilarityTopK == 5
Retrieve(index, colls) ==
    Take(StoredIn(colls, index.text_store), SimilarityTopK)
    \o TextToImageRetrieve(index, colls)

\* `ai_response = await query_engine.aquery(query_str)`: the engine retrieves
\* with its retriever and sends one generation request; then
\* `return str(ai_response)` and the route's 200.
ResponseStr(ai_response) == ai_response.response

GetSummaryQuery(r) ==
    /\ pc[r] = "get_summary:aquery"
    /\ \E outcome \in {"ok", "retrieve raised", "generate raised"},
          g \in Generated :
         LET f == frame[r]
             ai_response == [response |-> g]
             nodes == Retrieve(f.vs.user_index, collections)
         IN  IF outcome = "retrieve raised"
             THEN Return(r, ExceptResponse(GetSummaryError, RetrievalError),
                         [f EXCEPT !.calls = Append(@, Call("retrieve", "raised"))])
             ELSE IF outcome = "generate raised"
             THEN Return(r, ExceptResponse(GetSummaryError, GenerationError),
                         [f EXCEPT !.nodes = nodes,
                                   !.calls = @ \o <<Call("retrieve", "ok"),
                                                    Call("generate", "raised")>>])
             ELSE Return(r, SummaryGenerated(Str(ResponseStr(ai_response))),
                         [f EXCEPT !.nodes = nodes,
                                   !.calls = @ \o <<Call("retrieve", "ok"),
                                                    Call("generate", "ok")>>])
    /\ UNCHANGED <<collections, initialised, normVars, apiVars>>

\* ------------------------------------------- image_utils.py: the normaliser
\* image_req_to_base64 on its own: the requests it may be given, and one
\* action that awaits it.
ByteValues == {0, 65, 255}
Payloads == UNION {[1..n -> ByteValues] : n \in 0..MaxPayloadLen}

NormImages ==
    {None}
    \cup {Str(BytesDecode(B64Encode(x))) : x \in Payloads}
    \cup {Bytes(x) : x \in Payloads}
    \cup {Bytes(B64Encode(x)) : x \in Payloads}

NormRequests ==
    {Request("image", "U1", "", url, img, None) :
        url \in ImageUrls, img \in NormImages}

InitNorm ==
    /\ InitRoutes
    /\ ApiIdle
    /\ norm_in \in NormRequests
    /\ norm_out = NotRun

Normalise ==
    /\ norm_out = NotRun
    /\ \E fetched \in (IF norm_in.image_url # None
                        THEN FetchOutcomes(norm_in.image_url.val)
                        ELSE {"ok"}) :
         norm_out' = ImageReqToBase64(norm_in, fetched)
    /\ UNCHANGED <<norm_in, routeVars, apiVars>>

NextNorm == Normalise

SpecNorm == InitNorm /\ [][NextNorm]_vars

\* ------------------------------------- vector_stores.py: one VectorStore
\* One VectorStore object, built by `VectorStore()` or by get_instance, and
\* its methods called on it one after another with any user id.  vs_call
\* keeps the last call: the method, the user id passed, the collections before
\* it, whether it raised, the value it returned, and how many calls were made.
VsOwner == 1

Called(op, user_id, x) ==
    [op |-> op, user_id |-> user_id, before |-> collections,
     raised |-> x.raised, value |-> x.value, count |-> vs_call.count + 1]

InitVS ==
    /\ InitRoutes
    /\ NormIdle
    /\ ApiIdle

\* `VectorStore()`
VsConstruct ==
    /\ vs_obj = None
    /\ vs_obj' = NewVectorStore
    /\ UNCHANGED <<vs_call, routeVars, normVars>>

\* `await VectorStore.get_instance(user_id, has_text_store)`; when it raises
\* the caller gets no object.
VsGetInstance ==
    /\ vs_obj = None
    /\ vs_call.count < MaxCalls
    /\ \E u \in Users, has_text_store \in BOOLEAN, ok \in BOOLEAN :
         LET x == GetInstance(VsOwner, u, has_text_store, collections, ok)
         IN  /\ vs_obj' = IF x.raised THEN None ELSE x.vs
             /\ collections' = x.colls
             /\ vs_call' = Called("get_instance", u, x)
    /\ UNCHANGED <<initialised, pc, frame, last, normVars>>

\* `await vs.init_or_get_user_index(user_id, has_text_store)`
VsInitOrGetUserIndex ==
    /\ vs_obj # None
    /\ vs_call.count < MaxCalls
    /\ \E u \in Users, has_text_store \in BOOLEAN, ok \in BOOLEAN :
         LET x == InitOrGetUserIndex(vs_obj, VsOwner, u, has_text_store,
                                     collections, ok)
         IN  /\ vs_obj' = x.vs
             /\ collections' = x.colls
             /\ vs_call' = Called("init_or_get_user_index", u, x)
    /\ UNCHANGED <<initialised, pc, frame, last, normVars>>

\* `await vs.ingest_text(user_id, text_id, text)`
VsIngestTextCall ==
    /\ vs_obj # None
    /\ vs_call.count < MaxCalls
    /\ \E u \in Users, n \in RandomIds, t \in TextBodies,
          ok1 \in BOOLEAN, ok2 \in BOOLEAN :
         LET x == VsIngestText(vs_obj, VsOwner, u, FloatStr(n), t,
                               collections, ok1, ok2)
         IN  /\ vs_obj' = x.vs
             /\ collections' = x.colls
             /\ vs_call' = Called("ingest_text", u, x)
    /\ UNCHANGED <<initialised, pc, frame, last, normVars>>

\* `await vs.ingest_image(image_request, image_id)`
VsIngestImageCall ==
    /\ vs_obj # None
    /\ vs_call.count < MaxCalls
    /\ \E u \in Users, n \in RandomIds, img \in InlineImages \ {None},
          ok1 \in BOOLEAN, ok2 \in BOOLEAN :
        \E accepts \in ImageNodeAccepts(Coroutine) :
         LET request == Request("image", u, "", None, img, None)
             x == VsIngestImage(vs_obj, VsOwner, request, IntStr(n),
                                collections, ok1, accepts, ok2)
         IN  /\ vs_obj' = x.vs
             /\ collections' = x.colls
             /\ vs_call' = Called("ingest_image", u, x)
    /\ UNCHANGED <<initialised, pc, frame, last, normVars>>

NextVS ==
    \/ VsConstruct
    \/ VsGetInstance
    \/ VsInitOrGetUserIndex
    \/ VsIngestTextCall
    \/ VsIngestImageCall

SpecVS == InitVS /\ [][NextVS]_vars

\* ------------------------------------------------------------------ Spec
Next ==
    \/ \E r \in Reqs : IngestTextGetInstance(r)
    \/ \E r \in Reqs : IngestTextIngest(r)
    \/ \E r \in Reqs : IngestImageGetInstance(r)
    \/ \E r \in Reqs : IngestImageFetch(r)
    \/ \E r \in Reqs : IngestImagePairedText(r)
    \/ \E r \in Reqs : IngestImageIngest(r)
    \/ \E r \in Reqs : GetSummaryGetInstance(r)
    \/ \E r \in Reqs : GetSummaryRetrieve(r)
    \/ \E r \in Reqs : GetSummaryQuery(r)

Spec == Init /\ [][Next]_vars

\* ------------------------------------------------------------ properties
InFlight(r) == pc[r] \notin {"idle", "released"}

\* The bootstrap markers of user u in the user's text collection.
MarkerCount(u) ==
    Cardinality({i \in DOMAIN Stored(UserTextCollection(u)) :
                    Stored(UserTextCollection(u))[i] = BootstrapMarker(u)})

Raises(log) == {i \in DOMAIN log : log[i].outcome = "raised"}
Made(log, op) == {i \in DOMAIN log : log[i].op = op}
MadeOk(log, op) == {i \in DOMAIN log : log[i].op = op /\ log[i].outcome = "ok"}
InsertOps == {"insert_marker", "insert_text", "insert_image"}
\* The store accepted every insert the request made.
StoreAccepts(log) ==
    \A i \in DOMAIN log : log[i].op \in InsertOps => log[i].outcome = "ok"

LastReturned(kind) == last.resp # NoResponse /\ last.frame.req.kind = kind

\* C1: when two requests for the same new user are in flight together, the
\* first of them being the first access to that user's index, the user's
\* text collection holds at most one bootstrap marker.
C1_ConcurrentFirstAccessOneMarker ==
    \A r1 \in Reqs, r2 \in Reqs :
        (/\ r1 # r2
         /\ InFlight(r1) /\ InFlight(r2)
         /\ frame[r1].req.userId = frame[r2].req.userId
         /\ frame[r1].first_access)
        => MarkerCount(frame[r1].req.userId) <= 1

\* C2: at most one VectorStore object is live, and any two live handlers
\* that hold the Index of the same user hold the same Index object.
C2_OneLiveIndexPerUser ==
    /\ Cardinality({r \in Reqs : frame[r].vs # None}) <= 1
    /\ \A r1 \in Reqs, r2 \in Reqs :
         (/\ frame[r1].vs # None /\ frame[r2].vs # None
          /\ frame[r1].req.userId = frame[r2].req.userId)
         => frame[r1].vs.user_index = frame[r2].vs.user_index

\* C3: once a user's text collection holds the bootstrap marker, no later
\* step of any request inserts another one.
C3_MarkerOnlyOnFirstAccess ==
    [][\A u \in Users :
          MarkerCount(u) >= 1 => MarkerCount(u)' = MarkerCount(u)]_vars

\* C4: a summarize request for a user no Index was ever built for, none of
\* whose steps raised, returns no summary text, builds no Index and makes no
\* insert, retrieval or generation call.
C4_SummarizeNeverSeenNotReady ==
    (/\ LastReturned("summary")
     /\ last.frame.first_access
     /\ Raises(last.frame.calls) = {})
    => /\ last.resp.data = None
       /\ last.frame.vs = None
       /\ last.frame.calls = <<>>

\* C5: an image request with neither a URL nor inline data (each absent or
\* empty), served by a store that accepts inserts, gets status 400 and
\* inserts no text and no image.
NoImageUrl(image_request) ==
    image_request.image_url = None \/ image_request.image_url = Str("")
NoInlineImage(image_request) ==
    image_request.image = None \/ image_request.image = Str(<<>>)

C5_NoImageGets400 ==
    (/\ LastReturned("image")
     /\ NoImageUrl(last.frame.req) /\ NoInlineImage(last.frame.req)
     /\ StoreAccepts(last.frame.calls))
    => /\ last.resp.status = 400
       /\ Made(last.frame.calls, "insert_text") = {}
       /\ Made(last.frame.calls, "ImageNode") = {}
       /\ Made(last.frame.calls, "insert_image") = {}

\* C6: an image request whose URL fetch answered with a status other than
\* 200 built no Index and made no insert.
C6_FetchFailedBeforeIndex ==
    (/\ LastReturned("image")
     /\ \E i \in DOMAIN last.frame.calls :
            last.frame.calls[i] = Call("fetch", "non200"))
    => /\ last.frame.vs = None
       /\ \A i \in DOMAIN last.frame.calls :
              last.frame.calls[i].op \notin InsertOps

\* C7: an image request with a URL whose fetch answered 200, served by a
\* store that accepts inserts, inserts the image node and returns 200.
C7_UrlImageIngested ==
    (/\ LastReturned("image")
     /\ MadeOk(last.frame.calls, "fetch") # {}
     /\ StoreAccepts(last.frame.calls))
    => /\ last.resp.status = 200
       /\ MadeOk(last.frame.calls, "insert_image") # {}

\* C8: an image request with inline base64 data, no URL and no paired text,
\* served by a store that accepts inserts, returns 200 and leaves in the
\* user's image collection a node holding the normalised bytes of the image.
C8_InlineImageStored ==
    (/\ LastReturned("image")
     /\ last.frame.req.image_url = None
     /\ last.frame.req.image # None /\ last.frame.req.image # Str(<<>>)
     /\ last.frame.req.text_request = None
     /\ StoreAccepts(last.frame.calls))
    => /\ last.resp.status = 200
       /\ \E i \in DOMAIN Stored(UserImageCollection(last.frame.req.userId)) :
            Stored(UserImageCollection(last.frame.req.userId))[i]
              = ImageNode(IntStr(last.frame.image_id),
                          ImageReqToBase64(last.frame.req, "ok").value)

\* C9 as stated: for a request with no URL whose inline image is the raw
\* bytes X, the normaliser returns what it returns for the request whose
\* inline image is the base64 string of X.
C9_RawAndBase64Agree ==
    (/\ norm_out # NotRun
     /\ norm_in.image_url = None
     /\ norm_in.image.tag = "bytes")
    => norm_out = ImageReqToBase64(
                     [norm_in EXCEPT !.image =
                         Str(BytesDecode(B64Encode(norm_in.image.val)))], "ok")

\* C9 amended: for a request with no URL whose inline image is the str s,
\* the normaliser returns the bytes s.encode(), neither decoded from base64
\* nor encoded again, which is what it returns for the request whose inline
\* image is the bytes s.encode().
C9_StrAndEncodedBytesAgree ==
    (/\ norm_out # NotRun
     /\ norm_in.image_url = None
     /\ norm_in.image.tag = "str")
    => /\ norm_out = Returned(Bytes(StrEncode(norm_in.image.val)))
       /\ norm_out = ImageReqToBase64(
                        [norm_in EXCEPT !.image =
                            Bytes(StrEncode(norm_in.image.val))], "ok")

C9_Witness ==
    /\ norm_out # NotRun
    /\ norm_in.image_url = None
    /\ norm_in.image.tag = "str"
    /\ Len(norm_in.image.val) > 0

\* C10: every response has status 200, 400 or 500; when a step of the
\* request raised, the status is 500 and the message is the handler's prefix
\* followed by the error text; status 200 is returned only when no step
\* raised.  A handler that is still running has had no step raise.
ErrorPrefix(kind) ==
    IF kind = "text" THEN IngestTextError
    ELSE IF kind = "image" THEN IngestImageError ELSE GetSummaryError

ErrorText(op) ==
    IF op \in InsertOps THEN StoreError
    ELSE IF op = "fetch" THEN FetchError
    ELSE IF op = "document" THEN NameError
    ELSE IF op = "ImageNode" THEN ValidationError
    ELSE IF op = "retrieve" THEN RetrievalError ELSE GenerationError

C10_UniformEnvelope ==
    /\ \A r \in Reqs : Raises(frame[r].calls) = {}
    /\ last.resp # NoResponse
       => /\ last.resp.status \in {200, 400, 500}
          /\ \A i \in Raises(last.frame.calls) :
               /\ last.resp.status = 500
               /\ last.resp.message = ErrorPrefix(last.frame.req.kind)
                                        \o ErrorText(last.frame.calls[i].op)
          /\ last.resp.status = 200 => Raises(last.frame.calls) = {}

C10_Witness ==
    /\ last.resp.status = 500
    /\ Raises(last.frame.calls) # {}

\* The VectorStore objects the routes hold or held last, fully initialised.
Kinds == {"text", "image"}
StoreOf(index, kind) ==
    IF kind = "text" THEN index.text_store ELSE index.image_store
FramesBuilt ==
    {fr \in {frame[r] : r \in Reqs} \cup {last.frame} :
        fr.vs # None /\ fr.vs.index # None}

\* C11 as stated: every VectorStore a route builds for user u names the
\* per-user collection of each kind `{u}_{kind}` and the shared collection
\* of each kind `global_{kind}`.
C11_NamesAsStated ==
    \A fr \in FramesBuilt, kind \in Kinds :
        /\ StoreOf(fr.vs.user_index, kind) = fr.req.userId \o "_" \o kind
        /\ StoreOf(fr.vs.index, kind) = "global_" \o kind

\* C11 amended: every VectorStore a route builds for user u names the
\* per-user collection of each kind `{u}_{kind}` and the shared collection
\* of each kind `global_{kind}_store`, and every collection the store holds
\* bears the per-user name of some user.
C11_DeterministicNames ==
    /\ \A fr \in FramesBuilt, kind \in Kinds :
        /\ StoreOf(fr.vs.user_index, kind) = fr.req.userId \o "_" \o kind
        /\ StoreOf(fr.vs.index, kind) = "global_" \o kind \o "_store"
    /\ DOMAIN collections
         \subseteq {u \o "_" \o kind : u \in Users, kind \in Kinds}

C11_Witness ==
    /\ \E f1 \in FramesBuilt, f2 \in FramesBuilt :
         f1.req.userId # f2.req.userId
    /\ \E u \in Users : Stored(u \o "_image") # <<>>

\* C12: in every collection no two documents carry the same id.
C12_UniqueIdsPerCollection ==
    \A name \in DOMAIN collections :
        \A i \in DOMAIN collections[name], j \in DOMAIN collections[name] :
            i # j => collections[name][i].doc_id # collections[name][j].doc_id

\* C13: the step on which a text ingestion request for user u with body t
\* returns 200 appends a document with body t to `u_text`; a text request
\* that returned 200 has its body in `u_text`; and no step of any request
\* removes or changes a document a collection holds.
TextBodiesIn(name) == {Stored(name)[i].text : i \in DOMAIN Stored(name)}

ReturnsTextIngested(r) ==
    /\ pc[r] = "ingest_text:ingest_text"
    /\ pc'[r] = "released"
    /\ last'.resp.status = 200

KeepsDocuments ==
    \A name \in DOMAIN collections :
        /\ name \in DOMAIN collections'
        /\ Len(collections'[name]) >= Len(collections[name])
        /\ SubSeq(collections'[name], 1, Len(collections[name]))
             = collections[name]

C13_IngestedTextPersists ==
    /\ [](LastReturned("text") /\ last.resp.status = 200
            => last.frame.req.text
                 \in TextBodiesIn(last.frame.req.userId \o "_text"))
    /\ [][/\ KeepsDocuments
          /\ \A r \in Reqs :
               ReturnsTextIngested(r)
               => LET name == frame[r].req.userId \o "_text"
                  IN  /\ name \in DOMAIN collections'
                      /\ Len(collections'[name]) = Len(Stored(name)) + 1
                      /\ collections'[name][Len(collections'[name])].text
                           = frame[r].req.text]_vars

C13_Witness ==
    \E u \in Users, t \in TextBodies :
        /\ t \in TextBodiesIn(u \o "_text")
        /\ last.resp # NoResponse
        /\ last.frame.req.kind # "text"
        /\ last.frame.req.userId # u

\* C14: a summarize request that returned 200 made exactly one retrieval
\* and exactly one generation call, and its summary is the generated text.
C14_OneRetrievalOneGeneration ==
    (LastReturned("summary") /\ last.resp.status = 200)
    => /\ Cardinality(Made(last.frame.calls, "retrieve")) = 1
       /\ Cardinality(Made(last.frame.calls, "generate")) = 1
       /\ last.resp.data \in {Str(g) : g \in Generated}

\* C15: a summarize request none of whose steps raised, for a user nothing
\* was ever ingested for (the user's image collection is empty and the text
\* collection holds nothing but bootstrap markers), retrieved no node,
\* neither in its retrieval step nor in its query engine.
NeverIngested(u) ==
    /\ Stored(u \o "_image") = <<>>
    /\ \A i \in DOMAIN Stored(u \o "_text") :
         Stored(u \o "_text")[i] = BootstrapMarker(u)

C15_NeverIngestedRetrievesNothing ==
    (/\ LastReturned("summary")
     /\ NeverIngested(last.frame.req.userId)
     /\ Raises(last.frame.calls) = {})
    => /\ last.frame.image_nodes = <<>>
       /\ last.frame.nodes = <<>>

\* C16: within one request each store insert, the image fetch and the
\* generation call are attempted at most once, and a step that raised is
\* the last step the request made: it returned 500 with that error.
OnceOps == InsertOps \cup {"fetch", "generate"}

C16_NoRetries ==
    /\ \A fr \in {frame[r] : r \in Reqs} \cup {last.frame}, op \in OnceOps :
         Cardinality(Made(fr.calls, op)) <= 1
    /\ \A i \in Raises(last.frame.calls) :
         /\ i = Len(last.frame.calls)
         /\ last.resp = ServerResponse(500,
                            ErrorPrefix(last.frame.req.kind)
                              \o ErrorText(last.frame.calls[i].op), None)

C16_Witness ==
    /\ last.frame.calls # <<>>
    /\ last.frame.calls[Len(last.frame.calls)] = Call("insert_text", "raised")
    /\ last.frame.req.kind = "image"
    /\ last.resp.status = 500

\* C17: on one VectorStore object, a call init_or_get_user_index(user_id)
\* that returned gave an Index over `{user_id}_text` and `{user_id}_image`,
\* and a call ingest_text(user_id, ...) that returned added a document to
\* `{user_id}_text` and changed no other user's collection.
C17_IndexOfTheUserPassed ==
    /\ (vs_call.op = "init_or_get_user_index" /\ ~vs_call.raised)
       => /\ vs_call.value.text_store = vs_call.user_id \o "_text"
          /\ vs_call.value.image_store = vs_call.user_id \o "_image"
    /\ (vs_call.op = "ingest_text" /\ ~vs_call.raised)
       => /\ Len(Stored(vs_call.user_id \o "_text"))
               > Len(StoredIn(vs_call.before, vs_call.user_id \o "_text"))
          /\ \A u \in Users \ {vs_call.user_id} :
               Stored(u \o "_text") = StoredIn(vs_call.before, u \o "_text")

\* C18: in an inline-image request with paired text, the image node is
\* built and inserted only after the paired text insert succeeded; when the
\* image was inserted the paired text is in the user's text collection under
\* the same id, and the request returns 200 only with both inserted.
PairedInline(fr) ==
    /\ fr.req.kind = "image"
    /\ ~HasImageUrl(fr.req)
    /\ HasInlineImage(fr.req)
    /\ fr.req.text_request # None

C18_TextBeforeImage ==
    \A fr \in {f \in {frame[r] : r \in Reqs} \cup {last.frame} : PairedInline(f)} :
        /\ \A i \in Made(fr.calls, "ImageNode") \cup Made(fr.calls, "insert_image") :
             \E j \in MadeOk(fr.calls, "insert_text") : j < i
        /\ MadeOk(fr.calls, "insert_image") # {}
           => /\ \E k \in DOMAIN Stored(fr.req.userId \o "_text") :
                   Stored(fr.req.userId \o "_text")[k]
                     = Document(fr.req.userId \o "_" \o IntStr(fr.image_id),
                                fr.req.text_request.text)
              /\ \E k \in DOMAIN Stored(fr.req.userId \o "_image") :
                   Stored(fr.req.userId \o "_image")[k].doc_id
                     = IntStr(fr.image_id)
        /\ (fr = last.frame /\ last.resp.status = 200)
           => /\ MadeOk(fr.calls, "insert_text") # {}
              /\ MadeOk(fr.calls, "insert_image") # {}

C18_Witness ==
    /\ PairedInline(last.frame)
    /\ last.resp.status = 500
    /\ MadeOk(last.frame.calls, "insert_text") # {}
    /\ Made(last.frame.calls, "insert_image") # {}
    /\ MadeOk(last.frame.calls, "insert_image") = {}
    /\ Stored(last.frame.req.userId \o "_image") = <<>>

\* C19: a step of a route request made for user u changes no collection
\* but `u_text` and `u_image`; the global collections stay as they were
\* (empty); and the per-user names of distinct users differ from each other
\* and from the global names.
ActingUser(r) ==
    IF pc[r] # "idle" THEN frame[r].req.userId
    ELSE IF pc'[r] = "released" THEN last'.frame.req.userId
    ELSE frame'[r].req.userId

GlobalNames == {"global_text_store", "global_image_store"}

C19_OnlyOwnCollectionsChange ==
    /\ [][\A r \in Reqs :
            pc'[r] # pc[r]
            => \A name \in DOMAIN collections' :
                 StoredIn(collections', name) # Stored(name)
                 => name \in {ActingUser(r) \o "_text",
                              ActingUser(r) \o "_image"}]_vars
    /\ [](\A g \in GlobalNames : Stored(g) = <<>>)
    /\ [](\A u \in Users, v \in Users, k1 \in Kinds, k2 \in Kinds :
            /\ u # v => u \o "_" \o k1 # v \o "_" \o k2
            /\ u \o "_" \o k1 \notin GlobalNames)

C19_Witness ==
    /\ \A u \in Users : Stored(u \o "_text") # <<>>
    /\ \E u \in Users : Stored(u \o "_image") # <<>>
    /\ \A r \in Reqs : pc[r] = "released"

====
